---- MODULE Spec2Model ----
(***************************************************************************)
(* A model of the miner control coordinator of src/gui/gui.go: the GUI     *)
(* struct, the command dispatcher handleElectronCommands, the procedures   *)
(* configureMiner / startMiner / stopMiner, the two polling loops started  *)
(* by OnWait and the shutdown sequence of Run.                             *)
(*                                                                         *)
(* Four execution contexts run concurrently: the goroutine of Run (which   *)
(* also executes OnWait), the message handler of the window (dispatcher),  *)
(* the local-stats goroutine and the network-stats goroutine.  Every       *)
(* action is one uninterrupted piece of one context: a context is split    *)
(* where it makes an external call (backend, pool API) or sleeps.          *)
(***************************************************************************)
EXTENDS Integers, Sequences, FiniteSets, TLC

\* ------------------------------------------------------------ bounds
\* hashrates reported by the backend range over 0..MaxHashrate
MaxHashrate == 1
\* hardware profiles sent by the front-end range over 0..MaxHardwareType
MaxHardwareType == 3
\* the counter of out-of-cycle network fetches saturates here
FetchCountCap == 2
\* the clock advances in steps of TimeStep seconds
TimeStep == 30

\* ------------------------------------------------------------ program constants
\* time.Since(lastGraphUpdate).Minutes() >= 1, in seconds
GraphUpdateInterval == 60
\* HardwareType of a fresh session
DefaultHardwareType == 1
\* the hardware profiles that have an endpoint of their own
CpuHardwareType == 1
GpuHardwareType == 2

\* ------------------------------------------------------------ values
NoErr == "nil"
\* the one error value external calls fail with
ErrE == "E"
UnknownCommand == "is an unknown command"
NoMiner == [present |-> FALSE, hw |-> 0, running |-> FALSE]
Hashrates == 0..MaxHashrate
HardwareTypes == 0..MaxHardwareType

\* the frontendConfig a payload decodes to; ok = FALSE is a payload that
\* json.Unmarshal rejects
FrontendConfig(ok, addr, pool, coin, algo, xalgo, xvariant, hw) ==
    [ok |-> ok, Address |-> addr, Pool |-> pool, CoinType |-> coin,
     CoinAlgo |-> algo, XmrigAlgo |-> xalgo, XmrigVariant |-> xvariant,
     HardwareType |-> hw]
NoPayload == FrontendConfig(TRUE, "", "", "", "", "", "", 0)
BadPayload == FrontendConfig(FALSE, "", "", "", "", "", "", 0)
\* payloads of save-configuration
ConfigPayloads ==
    {FrontendConfig(TRUE, "addr1", "pool1", "BLOC", "algo2", "xalgo2", "xvariant2", hw) :
        hw \in HardwareTypes} \cup {BadPayload}
\* one payload that decodes and one that does not
ConfigPayloadsShort ==
    {FrontendConfig(TRUE, "addr1", "pool1", "BLOC", "algo2", "xalgo2", "xvariant2",
                    GpuHardwareType), BadPayload}
\* payloads of get-pools-list: only the coin type is set
PoolsPayloads ==
    {FrontendConfig(TRUE, "", "", coin, "", "", "", 0) : coin \in {"BLOC", "XTL"}}
    \cup {BadPayload}

\* one payload with a coin type of its own and one that does not decode
PoolsPayloadsShort == {FrontendConfig(TRUE, "", "", "XTL", "", "", "", 0), BadPayload}

\* the pool descriptor GetPool returns
PoolInfo == [Cpu |-> "cpu-endpoint", Gpu |-> "gpu-endpoint", Config |-> "generic-endpoint"]
\* the pool lists GetPoolList can return
PoolLists == {<<>>, <<"pool1">>, <<"pool1", "pool2">>}

\* an entry of a trace: a UI event sent or an external operation called.
\* data: error text, endpoint, pool id or address; num: hashrate or
\* hardware profile; flag: UpdateGraph
Entry(n, d, h, f) == [name |-> n, data |-> d, num |-> h, flag |-> f]
Event(n, d) == Entry(n, d, 0, FALSE)
Call(n) == Entry(n, "", 0, FALSE)
FatalError(e) == Event("fatal_error", e)
EventNames == {"fatal_error", "miner_stats", "network_stats"}
Count(log, n) == Cardinality({i \in 1..Len(log) : log[i].name = n})
Has(log, n) == \E i \in 1..Len(log) : log[i].name = n
Events(log) == SelectSeq(log, LAMBDA e : e.name \in EventNames)
Calls(log) == SelectSeq(log, LAMBDA e : e.name \notin EventNames)
Min(a, b) == IF a < b THEN a ELSE b
Last(log) == log[Len(log)]

\* the reply of a dispatch: val is the result (a list of text fragments),
\* cfg a serialized frontendConfig, err the error
NoReply == [sent |-> FALSE, val |-> <<>>, cfg |-> NoPayload, err |-> NoErr]
Reply(v, e) == [sent |-> TRUE, val |-> v, cfg |-> NoPayload, err |-> e]
ReplyConfig(c) == [sent |-> TRUE, val |-> <<>>, cfg |-> c, err |-> NoErr]

\* what the step just taken let the outside observe: the trace of the
\* invocation (dispatch, tick, OnWait) it completed, the reply, and the
\* value of the handler's err
NoOut == [ctx |-> "none", cmd |-> "", log |-> <<>>, reply |-> NoReply, err |-> NoErr]
Out(ctx, cmd, log, reply) ==
    [ctx |-> ctx, cmd |-> cmd, log |-> log, reply |-> reply, err |-> NoErr]

Commands ==
    {"get-username", "get-miner-path", "get-miner-type", "get-pools-list",
     "get-processing-config", "get-coins-content", "save-configuration",
     "get-config-file", "start-miner", "stop-miner"}
\* command names the dispatcher does not know
OtherCommands == {"reconfigure"}

VARIABLES
    config,             \* gui.config
    miner,              \* gui.miner and the state of the backend behind it
    lastHashrate,       \* gui.lastHashrate
    exit,               \* "none", or how the process was terminated
    runPc, runErr, rlog,            \* Run / OnWait
    miningTicker, networkTicker,    \* "nil", "running", "stopped"
    miningTick, networkTick,        \* a tick waits in the ticker's channel
    sinceGraph,         \* seconds since lastGraphUpdate, saturating
    sinceHint,          \* seconds since UpdateGraph was last sent, saturating
    localPc, lhash, llog,           \* updateMiningStatsLoop
    netPc, nlog,                    \* the network-stats goroutine
    dpc, dcmd, dpayload, derr, dlog,    \* handleElectronCommands
    immediateFetches,   \* out-of-cycle network fetches so far, saturating
    lastPools,          \* the get-pools-list dispatch that returned last, if
                        \* no other dispatch returned since
    out                 \* what the last step let the outside observe

vars ==
    <<config, miner, lastHashrate, exit, runPc, runErr, rlog, miningTicker,
      networkTicker, miningTick, networkTick, sinceGraph, sinceHint, localPc,
      lhash, llog, netPc, nlog, dpc, dcmd, dpayload, derr, dlog,
      immediateFetches, lastPools, out>>

sharedVars == <<config, miner, lastHashrate>>
runVars == <<runPc, runErr, rlog>>
tickerVars == <<miningTicker, networkTicker, miningTick, networkTick>>
clockVars == <<sinceGraph, sinceHint>>
localVars == <<localPc, lhash, llog, immediateFetches>>
netVars == <<netPc, nlog>>
dispVars == <<dpc, dcmd, dpayload, derr, dlog, lastPools>>

Alive == exit = "none"
\* the process runs: not terminated, and Run has not returned to main
Running == Alive /\ runPc # "returned"

\* ------------------------------------------------------------ New
\* the session configuration New synthesizes when none was persisted
DefaultConfig ==
    [Address |-> "", PoolID |-> "", CoinType |-> "BLOC", CoinAlgo |-> "algo1",
     XmrigAlgo |-> "xalgo1", XmrigVariant |-> "xvariant1",
     HardwareType |-> DefaultHardwareType, Mid |-> "new-uuid",
     MinerHardwareType |-> 0]

\* the configurations a previous session can have persisted
PersistedConfigs ==
    {[DefaultConfig EXCEPT !.Address = "addr1", !.PoolID = "pool1",
                           !.HardwareType = hw, !.Mid = "old-uuid"] :
        hw \in {CpuHardwareType, GpuHardwareType}}

\* no get-pools-list dispatch to compare the next one with
NoPools ==
    [seen |-> FALSE, repeat |-> FALSE, coin |-> "", pools |-> <<>>, val |-> <<>>,
     cfg |-> DefaultConfig]

\* miner.CreateMiner(cfg): a backend instance, not started
CreateMiner(hw) == [present |-> TRUE, hw |-> hw, running |-> FALSE]

\* New: with a persisted config the backend is created from it, without one
\* the defaults are set and there is no backend
NewState(persisted, c) ==
    IF persisted
    THEN /\ config = [c EXCEPT !.MinerHardwareType = c.HardwareType]
         /\ miner = CreateMiner(c.HardwareType)
    ELSE /\ config = DefaultConfig
         /\ miner = NoMiner

Init ==
    /\ \E persisted \in BOOLEAN : \E c \in PersistedConfigs : NewState(persisted, c)
    /\ lastHashrate = 0
    /\ exit = "none"
    /\ runPc = "boot" /\ runErr = NoErr /\ rlog = <<>>
    /\ miningTicker = "nil" /\ networkTicker = "nil"
    /\ miningTick = FALSE /\ networkTick = FALSE
    /\ sinceGraph = 0 /\ sinceHint = 0
    /\ localPc = "off" /\ lhash = 0 /\ llog = <<>>
    /\ netPc = "off" /\ nlog = <<>>
    /\ dpc = "idle" /\ dcmd = "" /\ dpayload = NoPayload /\ derr = NoErr
    /\ dlog = <<>>
    /\ immediateFetches = 0
    /\ lastPools = NoPools
    /\ out = NoOut

\* ------------------------------------------------------------ environment
\* TimeStep seconds pass
Advance ==
    /\ Running /\ localPc \notin {"off", "start"}
    /\ sinceGraph < GraphUpdateInterval \/ sinceHint < GraphUpdateInterval
    /\ sinceGraph' = Min(sinceGraph + TimeStep, GraphUpdateInterval)
    /\ sinceHint' = Min(sinceHint + TimeStep, GraphUpdateInterval)
    /\ out' = NoOut
    /\ UNCHANGED <<sharedVars, exit, runVars, tickerVars, localVars, netVars,
                   dispVars>>

\* a running miningStatsTicker puts a tick in its channel (a tick that
\* finds the channel full is dropped); the periods of the two tickers are
\* left open
MiningTickerFires ==
    /\ Running /\ miningTicker = "running" /\ ~miningTick
    /\ miningTick' = TRUE
    /\ out' = NoOut
    /\ UNCHANGED <<sharedVars, exit, runVars, miningTicker, networkTicker,
                   networkTick, clockVars, localVars, netVars, dispVars>>

NetworkTickerFires ==
    /\ Running /\ networkTicker = "running" /\ ~networkTick
    /\ networkTick' = TRUE
    /\ out' = NoOut
    /\ UNCHANGED <<sharedVars, exit, runVars, miningTicker, networkTicker,
                   miningTick, clockVars, localVars, netVars, dispVars>>

\* ------------------------------------------------------------ stopMiner
\* a stopMiner that lacks its nil check
StopMinerSkips_NoCheck(m) == FALSE

\* stopMiner returns nil at once when there is no backend
StopMinerSkips(m) == ~m.present

\* stopMiner when Stop failed with e: one fatal_error event, e is returned
StopMinerFailed(log, e) == Append(log, FatalError(e))

\* the backend after a successful Stop / Start
MinerStopped(m) == [m EXCEPT !.running = FALSE]
MinerStarted(m) == [m EXCEPT !.running = TRUE]

\* ------------------------------------------------------------ updateNetworkStats
\* the GetStats call of updateNetworkStats, keyed by the pool id and the
\* last hashrate as read at the call (gui.config is never nil after New)
NetStatsCall(cfg, hashrate) == Entry("api.GetStats", cfg.PoolID, hashrate, FALSE)

\* an updateNetworkStats that reports a failed query to the window
NetStatsResult_Reports(log, ok) ==
    IF ok THEN Append(log, Event("network_stats", Last(log).data))
    ELSE Append(log, FatalError(ErrE))

\* what updateNetworkStats sends once GetStats returned: the stats on
\* success, nothing on failure
NetStatsResult(log, ok) ==
    IF ok THEN Append(log, Event("network_stats", Last(log).data)) ELSE log

\* ------------------------------------------------------------ Run and OnWait
\* bootstrap.Run fails before the window is up: Run returns the error
ShellFailsToStart ==
    /\ Running /\ runPc = "boot"
    /\ runPc' = "returned" /\ runErr' = ErrE
    /\ out' = NoOut
    /\ UNCHANGED <<sharedVars, exit, rlog, tickerVars, clockVars, localVars,
                   netVars, dispVars>>

\* OnWait: both tickers are created, both goroutines started, and
\* updateNetworkStats is called in OnWait's own context
OnWait ==
    /\ Running /\ runPc = "boot"
    /\ miningTicker' = "running" /\ localPc' = "start"
    /\ networkTicker' = "running" /\ netPc' = "wait"
    /\ rlog' = <<NetStatsCall(config, lastHashrate)>>
    /\ runPc' = "onwait_netstats"
    /\ out' = NoOut
    /\ UNCHANGED <<sharedVars, exit, runErr, miningTick, networkTick, clockVars,
                   lhash, llog, immediateFetches, nlog, dispVars>>

\* the pool API answers OnWait's updateNetworkStats; OnWait returns
OnWaitNetStatsReturn ==
    /\ Running /\ runPc = "onwait_netstats"
    /\ \E ok \in BOOLEAN :
         out' = [Out("onwait", "", NetStatsResult(rlog, ok), NoReply)
                   EXCEPT !.err = IF ok THEN NoErr ELSE ErrE]
    /\ rlog' = <<>>
    /\ runPc' = "ui"
    /\ UNCHANGED <<sharedVars, exit, runErr, tickerVars, clockVars, localVars,
                   netVars, dispVars>>

\* bootstrap.Run returns (the window was closed): with an error Run returns
\* it at once, without one Run goes on to stopMiner
ShellReturns ==
    /\ Running /\ runPc = "ui"
    /\ \E ok \in BOOLEAN :
         IF ok THEN runPc' = "stop" /\ runErr' = runErr
         ELSE runPc' = "returned" /\ runErr' = ErrE
    /\ out' = NoOut
    /\ UNCHANGED <<sharedVars, exit, rlog, tickerVars, clockVars, localVars,
                   netVars, dispVars>>

\* Run calls stopMiner
RunStopMiner ==
    /\ Running /\ runPc = "stop"
    /\ IF StopMinerSkips(miner)
       THEN /\ rlog' = Append(rlog, Call("stopMiner"))
            /\ runPc' = "tickers"
       ELSE /\ rlog' = rlog \o <<Call("stopMiner"), Call("miner.Stop")>>
            /\ runPc' = "stop_call"
    /\ out' = NoOut
    /\ UNCHANGED <<sharedVars, exit, runErr, tickerVars, clockVars, localVars,
                   netVars, dispVars>>

\* the backend's Stop returns to Run's stopMiner; on an error Run returns it
RunStopReturn ==
    /\ Running /\ runPc = "stop_call"
    /\ \E ok \in BOOLEAN :
         IF ok
         THEN /\ miner' = MinerStopped(miner)
              /\ runPc' = "tickers"
              /\ UNCHANGED <<rlog, runErr>>
         ELSE /\ rlog' = StopMinerFailed(rlog, ErrE)
              /\ runErr' = ErrE
              /\ runPc' = "returned"
              /\ UNCHANGED miner
    /\ out' = NoOut
    /\ UNCHANGED <<config, lastHashrate, exit, tickerVars, clockVars, localVars,
                   netVars, dispVars>>

\* the ticker cancelled ahead of stopMiner
RunStopMiningTicker_Early ==
    /\ Running /\ runPc = "stop" /\ miningTicker = "running"
    /\ miningTicker' = "stopped"
    /\ out' = NoOut
    /\ UNCHANGED <<sharedVars, exit, runVars, networkTicker, miningTick,
                   networkTick, clockVars, localVars, netVars, dispVars>>

\* gui.miningStatsTicker.Stop()
RunStopMiningTicker ==
    /\ Running /\ runPc = "tickers"
    /\ miningTicker' = "stopped"
    /\ runPc' = "tickers2"
    /\ out' = NoOut
    /\ UNCHANGED <<sharedVars, exit, runErr, rlog, networkTicker, miningTick,
                   networkTick, clockVars, localVars, netVars, dispVars>>

\* gui.networkStatsTicker.Stop(); Run returns nil
RunStopNetworkTicker ==
    /\ Running /\ runPc = "tickers2"
    /\ networkTicker' = "stopped"
    /\ runPc' = "returned"
    /\ out' = NoOut
    /\ UNCHANGED <<sharedVars, exit, runErr, rlog, miningTicker, miningTick,
                   networkTick, clockVars, localVars, netVars, dispVars>>

\* ------------------------------------------------------------ network-stats loop
\* a tick of networkStatsTicker: updateNetworkStats reads its arguments and
\* calls the pool API
NetworkTick ==
    /\ Running /\ netPc = "wait" /\ networkTick
    /\ networkTick' = FALSE
    /\ nlog' = <<NetStatsCall(config, lastHashrate)>>
    /\ netPc' = "netstats"
    /\ out' = NoOut
    /\ UNCHANGED <<sharedVars, exit, runVars, miningTicker, networkTicker,
                   miningTick, clockVars, localVars, dispVars>>

\* the pool API answers; the loop waits for the next tick
NetworkStatsReturn ==
    /\ Running /\ netPc = "netstats"
    /\ \E ok \in BOOLEAN :
         out' = [Out("network", "", NetStatsResult(nlog, ok), NoReply)
                   EXCEPT !.err = IF ok THEN NoErr ELSE ErrE]
    /\ nlog' = <<>>
    /\ netPc' = "wait"
    /\ UNCHANGED <<sharedVars, exit, runVars, tickerVars, clockVars, localVars,
                   dispVars>>

\* ------------------------------------------------------------ local-stats loop
\* the goroutine starts: lastGraphUpdate := time.Now()
LocalLoopStarts ==
    /\ Running /\ localPc = "start"
    /\ sinceGraph' = 0 /\ sinceHint' = 0
    /\ localPc' = "wait"
    /\ out' = NoOut
    /\ UNCHANGED <<sharedVars, exit, runVars, tickerVars, lhash, llog,
                   immediateFetches, netVars, dispVars>>

\* a local-stats tick that waits for the network-stats call of the other loop
LocalTick_Locked ==
    /\ Running /\ localPc = "wait" /\ miningTick /\ netPc # "netstats"
    /\ miningTick' = FALSE
    /\ IF ~miner.present
       THEN /\ out' = Out("local", "", <<>>, NoReply)
            /\ UNCHANGED <<localPc, llog>>
       ELSE /\ llog' = <<Call("miner.GetStats")>>
            /\ localPc' = "getstats"
            /\ out' = NoOut
    /\ UNCHANGED <<sharedVars, exit, runVars, miningTicker, networkTicker,
                   networkTick, clockVars, lhash, immediateFetches, netVars,
                   dispVars>>

\* a tick of miningStatsTicker: skipped without a backend, else GetStats is
\* called on it
LocalTick ==
    /\ Running /\ localPc = "wait" /\ miningTick
    /\ miningTick' = FALSE
    /\ IF ~miner.present
       THEN /\ out' = Out("local", "", <<>>, NoReply)
            /\ UNCHANGED <<localPc, llog>>
       ELSE /\ llog' = <<Call("miner.GetStats")>>
            /\ localPc' = "getstats"
            /\ out' = NoOut
    /\ UNCHANGED <<sharedVars, exit, runVars, miningTicker, networkTicker,
                   networkTick, clockVars, lhash, immediateFetches, netVars,
                   dispVars>>

\* the out-of-cycle network fetch is due
FirstHashrate(last, h) == last = 0 /\ h > 0

\* a throttle that compares against nothing
GraphDue_Always(since) == since >= 0

\* time.Since(lastGraphUpdate).Minutes() >= 1
GraphDue(since) == since >= GraphUpdateInterval

\* seconds since lastGraphUpdate after an emission
GraphStamp(hint, since) == IF hint THEN 0 ELSE since

\* the end of a successful tick: the hashrate is stored, the address
\* stamped, the hint decided, miner_stats sent
EmitMinerStats(log, h) ==
    LET hint == GraphDue(sinceGraph) IN
    /\ lastHashrate' = h
    /\ sinceGraph' = GraphStamp(hint, sinceGraph)
    /\ sinceHint' = IF hint THEN 0 ELSE sinceHint
    /\ out' = Out("local", "", Append(log, Entry("miner_stats", config.Address, h, hint)),
                  NoReply)
    /\ llog' = <<>>
    /\ lhash' = 0
    /\ localPc' = "wait"

\* a loop that fetches the network stats before it stores the hashrate
LocalGetStatsReturn_FetchFirst ==
    /\ Running /\ localPc = "getstats"
    /\ \E ok \in BOOLEAN : \E h \in Hashrates :
         IF ~ok
         THEN /\ localPc' = "wait"
              /\ out' = [Out("local", "", llog, NoReply) EXCEPT !.err = ErrE]
              /\ llog' = <<>>
              /\ UNCHANGED <<lastHashrate, clockVars, lhash, immediateFetches>>
         ELSE IF FirstHashrate(lastHashrate, h)
         THEN /\ lhash' = h
              /\ llog' = Append(llog, NetStatsCall(config, lastHashrate))
              /\ immediateFetches' = Min(immediateFetches + 1, FetchCountCap)
              /\ localPc' = "netstats"
              /\ out' = NoOut
              /\ UNCHANGED <<lastHashrate, clockVars>>
         ELSE /\ EmitMinerStats(llog, h)
              /\ UNCHANGED immediateFetches
    /\ UNCHANGED <<config, miner, exit, runVars, tickerVars, netVars, dispVars>>

\* a loop that takes a failed query for a hashrate of zero
LocalGetStatsReturn_Resets ==
    /\ Running /\ localPc = "getstats"
    /\ \E ok \in BOOLEAN : \E h \in Hashrates :
         IF ~ok
         THEN /\ localPc' = "wait"
              /\ out' = [Out("local", "", llog, NoReply) EXCEPT !.err = ErrE]
              /\ llog' = <<>>
              /\ lastHashrate' = 0
              /\ UNCHANGED <<clockVars, lhash, immediateFetches>>
         ELSE IF FirstHashrate(lastHashrate, h)
         THEN /\ lastHashrate' = h
              /\ lhash' = h
              /\ llog' = Append(llog, NetStatsCall(config, h))
              /\ immediateFetches' = Min(immediateFetches + 1, FetchCountCap)
              /\ localPc' = "netstats"
              /\ out' = NoOut
              /\ UNCHANGED clockVars
         ELSE /\ EmitMinerStats(llog, h)
              /\ UNCHANGED immediateFetches
    /\ UNCHANGED <<config, miner, exit, runVars, tickerVars, netVars, dispVars>>

\* GetStats returns to the loop
LocalGetStatsReturn ==
    /\ Running /\ localPc = "getstats"
    /\ \E ok \in BOOLEAN : \E h \in Hashrates :
         IF ~ok
         THEN /\ localPc' = "wait"
              /\ out' = [Out("local", "", llog, NoReply) EXCEPT !.err = ErrE]
              /\ llog' = <<>>
              /\ UNCHANGED <<lastHashrate, clockVars, lhash, immediateFetches>>
         ELSE IF FirstHashrate(lastHashrate, h)
         THEN /\ lastHashrate' = h
              /\ lhash' = h
              /\ llog' = Append(llog, NetStatsCall(config, h))
              /\ immediateFetches' = Min(immediateFetches + 1, FetchCountCap)
              /\ localPc' = "netstats"
              /\ out' = NoOut
              /\ UNCHANGED clockVars
         ELSE /\ EmitMinerStats(llog, h)
              /\ UNCHANGED immediateFetches
    /\ UNCHANGED <<config, miner, exit, runVars, tickerVars, netVars, dispVars>>

\* the out-of-cycle updateNetworkStats returns; the tick goes on
LocalNetStatsReturn ==
    /\ Running /\ localPc = "netstats"
    /\ \E ok \in BOOLEAN : EmitMinerStats(NetStatsResult(llog, ok), lhash)
    /\ UNCHANGED <<config, miner, exit, runVars, tickerVars, immediateFetches,
                   netVars, dispVars>>

\* ------------------------------------------------------------ handleElectronCommands
\* a message of the window is handled: the window is up, and the handler is
\* not busy with an earlier message
CanDispatch == Running /\ dpc = "idle" /\ runPc \in {"onwait_netstats", "ui"}

\* the handler returns: the reply goes to the caller
Complete(cmd, log, reply, e) ==
    /\ out' = [Out("dispatch", cmd, log, reply) EXCEPT !.err = e]
    /\ dpc' = "idle" /\ dcmd' = "" /\ dpayload' = NoPayload /\ derr' = NoErr
    /\ dlog' = <<>>
    /\ IF cmd = "get-pools-list" THEN TRUE ELSE lastPools' = NoPools

\* the handler goes on in a later step
Continue(pc, cmd, p, log) ==
    /\ dpc' = pc /\ dcmd' = cmd /\ dpayload' = p /\ dlog' = log
    /\ derr' = NoErr
    /\ lastPools' = lastPools
    /\ out' = NoOut

\* sendElectronCommand("fatal_error", ...) followed by time.Sleep: the
\* event is out, the process still runs
FatalSleep(cmd, p, log, e) ==
    /\ dpc' = "fatal_sleep" /\ dcmd' = cmd /\ dpayload' = p /\ derr' = e
    /\ dlog' = Append(log, FatalError(e))
    /\ lastPools' = lastPools
    /\ out' = NoOut
    /\ exit' = exit

\* Fatalf / a panic: the process is gone, the caller gets no reply
Terminate(how, cmd, p, log, e) ==
    /\ exit' = how
    /\ dpc' = "exited" /\ dcmd' = cmd /\ dpayload' = p /\ derr' = e
    /\ dlog' = log
    /\ lastPools' = lastPools
    /\ out' = [Out("dispatch", cmd, log, NoReply) EXCEPT !.err = e]

\* logger.Fatalf after the grace period
FatalExit ==
    /\ Running /\ dpc = "fatal_sleep"
    /\ Terminate("fatal", dcmd, dpayload, dlog, derr)
    /\ UNCHANGED <<sharedVars, runVars, tickerVars, clockVars, localVars, netVars>>

\* the return after the switch, reached by the cases that do not return
AfterSwitch == Reply(<<>>, UnknownCommand)

\* case "get-username"
GetUsername ==
    /\ CanDispatch
    /\ \E u \in {"", "user"} : Complete("get-username", <<>>, Reply(<<u>>, NoErr), NoErr)
    /\ UNCHANGED <<sharedVars, exit, runVars, tickerVars, clockVars, localVars, netVars>>

\* case "get-miner-path"
GetMinerPath ==
    /\ CanDispatch
    /\ Complete("get-miner-path", <<>>, Reply(<<"workingDir/miner">>, NoErr), NoErr)
    /\ UNCHANGED <<sharedVars, exit, runVars, tickerVars, clockVars, localVars, netVars>>

\* case "get-miner-type": the type, or "" when it cannot be determined
GetMinerType ==
    /\ CanDispatch
    /\ \E t \in {"", "xmrig"} :
         Complete("get-miner-type", <<Call("DetermineMinerType")>>, Reply(<<t>>, NoErr), NoErr)
    /\ UNCHANGED <<sharedVars, exit, runVars, tickerVars, clockVars, localVars, netVars>>

\* case "get-coins-content": the content, or "" when it cannot be read
GetCoinsContent ==
    /\ CanDispatch
    /\ \E c \in {"", "content.json"} :
         Complete("get-coins-content", <<>>, Reply(<<c>>, NoErr), NoErr)
    /\ UNCHANGED <<sharedVars, exit, runVars, tickerVars, clockVars, localVars, netVars>>

\* a frontendConfig that lacks the hardware profile
CurrentConfig_NoProfile(cfg) ==
    FrontendConfig(TRUE, "", "", cfg.CoinType, cfg.CoinAlgo, cfg.XmrigAlgo,
                   cfg.XmrigVariant, 0)

\* the frontendConfig get-config-file serializes
CurrentConfig(cfg) ==
    FrontendConfig(TRUE, "", "", cfg.CoinType, cfg.CoinAlgo, cfg.XmrigAlgo,
                   cfg.XmrigVariant, cfg.HardwareType)

\* case "get-config-file"
GetConfigFile ==
    /\ CanDispatch
    /\ Complete("get-config-file", <<>>, ReplyConfig(CurrentConfig(config)), NoErr)
    /\ UNCHANGED <<sharedVars, exit, runVars, tickerVars, clockVars, localVars, netVars>>

\* a name no case matches
DispatchOther(c) ==
    /\ CanDispatch
    /\ Complete(c, <<>>, AfterSwitch, NoErr)
    /\ UNCHANGED <<sharedVars, exit, runVars, tickerVars, clockVars, localVars, netVars>>

\* a get-pools-list that stores every field of its payload
GetPoolsList_StoresAll(p) ==
    /\ CanDispatch
    /\ IF ~p.ok
       THEN /\ Terminate("fatal", "get-pools-list", p, <<FatalError(ErrE)>>, ErrE)
            /\ UNCHANGED config
       ELSE /\ config' = [config EXCEPT !.CoinType = p.CoinType, !.Address = p.Address]
            /\ Continue("pools_fetch", "get-pools-list", p,
                        <<Entry("api.GetPoolList", p.CoinType, 0, FALSE)>>)
            /\ exit' = exit
    /\ UNCHANGED <<miner, lastHashrate, runVars, tickerVars, clockVars, localVars, netVars>>

\* case "get-pools-list": the payload is decoded (a decode failure is fatal
\* at once), the coin type stored, GetPoolList called
GetPoolsList(p) ==
    /\ CanDispatch
    /\ IF ~p.ok
       THEN /\ Terminate("fatal", "get-pools-list", p, <<FatalError(ErrE)>>, ErrE)
            /\ UNCHANGED config
       ELSE /\ config' = [config EXCEPT !.CoinType = p.CoinType]
            /\ Continue("pools_fetch", "get-pools-list", p,
                        <<Entry("api.GetPoolList", p.CoinType, 0, FALSE)>>)
            /\ exit' = exit
    /\ UNCHANGED <<miner, lastHashrate, runVars, tickerVars, clockVars, localVars, netVars>>

\* a poolsList that is kept from one dispatch to the next
PoolsMarkup_Kept(pools) == lastPools.val \o pools \o <<"</div>">>

\* the markup of a pool list: one fragment per pool, then the closing tag
PoolsMarkup(pools) == pools \o <<"</div>">>

\* GetPoolList returns: a failure is fatal after the grace period; a
\* template that does not load or render ends the process through
\* log.Fatalf; else the markup is returned
GetPoolsListReturn ==
    /\ Running /\ dpc = "pools_fetch"
    /\ \/ FatalSleep(dcmd, dpayload, dlog, ErrE)
       \/ Terminate("fatal", dcmd, dpayload, Append(dlog, Call("GetPoolTemplate")), ErrE)
       \/ /\ exit' = exit
          /\ \E pools \in PoolLists :
               /\ lastPools' = [seen |-> TRUE,
                                repeat |-> /\ lastPools.seen
                                           /\ lastPools.coin = dpayload.CoinType
                                           /\ lastPools.pools = pools,
                                coin |-> dpayload.CoinType,
                                pools |-> pools, val |-> PoolsMarkup(pools),
                                cfg |-> config]
               /\ Complete(dcmd, Append(dlog, Call("GetPoolTemplate")),
                           Reply(PoolsMarkup(pools), NoErr), NoErr)
    /\ UNCHANGED <<sharedVars, runVars, tickerVars, clockVars, localVars, netVars>>

\* a get-processing-config that treats a missing backend like the other
\* fatal conditions
GetProcessingConfig_Fatal ==
    /\ CanDispatch
    /\ IF ~miner.present
       THEN FatalSleep("get-processing-config", NoPayload, <<>>, "")
       ELSE /\ Continue("gpc_stats", "get-processing-config", NoPayload,
                        <<Call("miner.GetStats")>>)
            /\ exit' = exit
    /\ UNCHANGED <<sharedVars, runVars, tickerVars, clockVars, localVars, netVars>>

\* case "get-processing-config": without a backend a fatal_error event and
\* an empty result, else GetStats is called on the backend first
GetProcessingConfig ==
    /\ CanDispatch
    /\ IF ~miner.present
       THEN Complete("get-processing-config", <<FatalError("")>>, Reply(<<"">>, NoErr), NoErr)
       ELSE Continue("gpc_stats", "get-processing-config", NoPayload,
                     <<Call("miner.GetStats")>>)
    /\ UNCHANGED <<sharedVars, exit, runVars, tickerVars, clockVars, localVars, netVars>>

\* GetStats returns (its result is dropped); the processing config is read
\* and serialized
GetProcessingConfigReturn ==
    /\ Running /\ dpc = "gpc_stats"
    /\ \E marshalled \in BOOLEAN :
         LET log == Append(dlog, Call("miner.GetProcessingConfig")) IN
         IF marshalled
         THEN Complete(dcmd, log, Reply(<<"processing-config">>, NoErr), NoErr)
         ELSE Complete(dcmd, Append(log, FatalError(ErrE)), Reply(<<"">>, NoErr), ErrE)
    /\ UNCHANGED <<sharedVars, exit, runVars, tickerVars, clockVars, localVars, netVars>>

\* case "save-configuration": the handler sleeps, then configureMiner runs
SaveConfiguration(p) ==
    /\ CanDispatch
    /\ Continue("cfg_delay", "save-configuration", p, <<>>)
    /\ UNCHANGED <<sharedVars, exit, runVars, tickerVars, clockVars, localVars, netVars>>

\* configureMiner, step 2: the session fields are taken from the payload
UpdateSession(cfg, p) ==
    [cfg EXCEPT !.Address = p.Address, !.PoolID = p.Pool, !.CoinType = p.CoinType,
                !.CoinAlgo = p.CoinAlgo, !.XmrigAlgo = p.XmrigAlgo,
                !.XmrigVariant = p.XmrigVariant, !.HardwareType = p.HardwareType]

\* a backend configuration that keeps the hardware profile it had
MinerConfig_Stale(cfg) == cfg

\* configureMiner, step 4: the backend configuration is built from the session
MinerConfig(cfg) == [cfg EXCEPT !.MinerHardwareType = cfg.HardwareType]

\* the CreateMiner call with the hardware profile of the configuration passed
CreateMinerCall(cfg) == Entry("miner.CreateMiner", "", cfg.MinerHardwareType, FALSE)

\* configureMiner up to its first remote call: decode, update the session,
\* classify the backend, create it, call GetPool.  failure names the step
\* that fails
ConfigureMiner ==
    /\ Running /\ dpc = "cfg_delay"
    /\ \E failure \in {"none", "classify", "create"} :
         IF ~dpayload.ok
         THEN /\ FatalSleep(dcmd, dpayload, dlog, ErrE)
              /\ UNCHANGED <<config, miner>>
         ELSE LET session == UpdateSession(config, dpayload)
                  log1 == Append(dlog, Call("DetermineMinerType"))
                  log2 == Append(log1, CreateMinerCall(MinerConfig(session)))
              IN  IF failure = "classify"
                  THEN /\ config' = session
                       /\ FatalSleep(dcmd, dpayload, log1, ErrE)
                       /\ UNCHANGED miner
                  ELSE IF failure = "create"
                  THEN /\ config' = MinerConfig(session)
                       /\ miner' = NoMiner
                       /\ FatalSleep(dcmd, dpayload, log2, ErrE)
                  ELSE /\ config' = MinerConfig(session)
                       /\ miner' = CreateMiner(config'.MinerHardwareType)
                       /\ Continue("cfg_getpool", dcmd, dpayload,
                                   Append(log2, Entry("api.GetPool", session.PoolID, 0, FALSE)))
                       /\ exit' = exit
    /\ UNCHANGED <<lastHashrate, runVars, tickerVars, clockVars, localVars, netVars>>

\* the endpoints of the two profiles exchanged
PoolAddress_Swapped(hw, poolInfo) ==
    IF hw = CpuHardwareType THEN poolInfo.Gpu
    ELSE IF hw = GpuHardwareType THEN poolInfo.Cpu
    ELSE poolInfo.Config

\* configureMiner, step 6: the endpoint for a hardware profile
PoolAddress(hw, poolInfo) ==
    IF hw = CpuHardwareType THEN poolInfo.Cpu
    ELSE IF hw = GpuHardwareType THEN poolInfo.Gpu
    ELSE poolInfo.Config

\* GetPool returns: a failure is fatal, else the endpoint is selected and
\* WriteConfig called on the backend
ConfigureGetPoolReturn ==
    /\ Running /\ dpc = "cfg_getpool"
    /\ \E ok \in BOOLEAN :
         IF ~ok
         THEN FatalSleep(dcmd, dpayload, dlog, ErrE)
         ELSE /\ Continue("cfg_write", dcmd, dpayload,
                    Append(dlog, Entry("miner.WriteConfig",
                                       PoolAddress(config.HardwareType, PoolInfo), 0, FALSE)))
              /\ exit' = exit
    /\ UNCHANGED <<sharedVars, runVars, tickerVars, clockVars, localVars, netVars>>

\* a configureMiner that reports a failed WriteConfig and goes on
ConfigureWriteReturn_GoesOn ==
    /\ Running /\ dpc = "cfg_write"
    /\ \E failure \in {"none", "write", "save"} :
         IF failure = "write"
         THEN /\ Complete(dcmd, dlog \o <<FatalError(ErrE), Call("SaveConfig")>>,
                          Reply(<<"Ok">>, NoErr), NoErr)
              /\ exit' = exit
         ELSE IF failure = "save"
         THEN FatalSleep(dcmd, dpayload, Append(dlog, Call("SaveConfig")), ErrE)
         ELSE /\ Complete(dcmd, Append(dlog, Call("SaveConfig")), Reply(<<"Ok">>, NoErr), NoErr)
              /\ exit' = exit
    /\ UNCHANGED <<sharedVars, runVars, tickerVars, clockVars, localVars, netVars>>

\* WriteConfig returns: a failure is fatal, else the session configuration
\* is saved (a failure is fatal) and the handler returns "Ok"
ConfigureWriteReturn ==
    /\ Running /\ dpc = "cfg_write"
    /\ \E failure \in {"none", "write", "save"} :
         IF failure = "write"
         THEN FatalSleep(dcmd, dpayload, dlog, ErrE)
         ELSE IF failure = "save"
         THEN FatalSleep(dcmd, dpayload, Append(dlog, Call("SaveConfig")), ErrE)
         ELSE /\ Complete(dcmd, Append(dlog, Call("SaveConfig")), Reply(<<"Ok">>, NoErr), NoErr)
              /\ exit' = exit
    /\ UNCHANGED <<sharedVars, runVars, tickerVars, clockVars, localVars, netVars>>

\* case "start-miner": startMiner calls Start on gui.miner; on a nil
\* gui.miner the call panics
StartMiner ==
    /\ CanDispatch
    /\ IF ~miner.present
       THEN Terminate("panic", "start-miner", NoPayload, <<>>, NoErr)
       ELSE /\ Continue("start_call", "start-miner", NoPayload, <<Call("miner.Start")>>)
            /\ exit' = exit
    /\ UNCHANGED <<sharedVars, runVars, tickerVars, clockVars, localVars, netVars>>

\* Start returns: a failure is fatal; else the case ends and the handler
\* runs into the return after the switch
StartMinerReturn ==
    /\ Running /\ dpc = "start_call"
    /\ \E ok \in BOOLEAN :
         IF ok
         THEN /\ miner' = MinerStarted(miner)
              /\ Complete(dcmd, dlog, AfterSwitch, NoErr)
              /\ exit' = exit
         ELSE /\ FatalSleep(dcmd, dpayload, dlog, ErrE)
              /\ UNCHANGED miner
    /\ UNCHANGED <<config, lastHashrate, runVars, tickerVars, clockVars, localVars, netVars>>

\* case "stop-miner": stopMiner is called; without a backend it returns nil
\* and the handler runs into the return after the switch
StopMiner ==
    /\ CanDispatch
    /\ IF StopMinerSkips(miner)
       THEN Complete("stop-miner", <<Call("stopMiner")>>, AfterSwitch, NoErr)
       ELSE Continue("stop_call", "stop-miner", NoPayload,
                     <<Call("stopMiner"), Call("miner.Stop")>>)
    /\ UNCHANGED <<sharedVars, exit, runVars, tickerVars, clockVars, localVars, netVars>>

\* a case "stop-miner" that returns the error of stopMiner to the caller
StopFailedInHandler_Returns(log, e) ==
    /\ Complete(dcmd, log, Reply(<<>>, e), e)
    /\ exit' = exit

\* what the case "stop-miner" does with the error stopMiner returned: a
\* second fatal_error event, the grace period, Fatalf
StopFailedInHandler(log, e) ==
    FatalSleep(dcmd, dpayload, log, e)

\* Stop returns to stopMiner
StopMinerReturn ==
    /\ Running /\ dpc = "stop_call"
    /\ \E ok \in BOOLEAN :
         IF ok
         THEN /\ miner' = MinerStopped(miner)
              /\ Complete(dcmd, dlog, AfterSwitch, NoErr)
              /\ exit' = exit
         ELSE /\ StopFailedInHandler(StopMinerFailed(dlog, ErrE), ErrE)
              /\ UNCHANGED miner
    /\ UNCHANGED <<config, lastHashrate, runVars, tickerVars, clockVars, localVars, netVars>>

\* ------------------------------------------------------------ specifications
\* Run, with OnWait
RunNext ==
    \/ ShellFailsToStart \/ OnWait \/ OnWaitNetStatsReturn \/ ShellReturns
    \/ RunStopMiner \/ RunStopReturn \/ RunStopMiningTicker \/ RunStopNetworkTicker

\* the clock, the tickers and the two polling goroutines
PollersNext ==
    \/ Advance \/ MiningTickerFires \/ NetworkTickerFires
    \/ NetworkTick \/ NetworkStatsReturn
    \/ LocalLoopStarts \/ LocalTick \/ LocalGetStatsReturn \/ LocalNetStatsReturn

\* the commands that give the polling loops what they read (the backend
\* instance, the pool id, the address) or that call the backend's GetStats
\* themselves
ConfigureNext(payloads) ==
    \/ \E p \in payloads : SaveConfiguration(p)
    \/ ConfigureMiner \/ ConfigureGetPoolReturn \/ ConfigureWriteReturn
    \/ GetProcessingConfig \/ GetProcessingConfigReturn
    \/ FatalExit

\* the other commands
CommandsNext ==
    \/ GetUsername \/ GetMinerPath \/ GetMinerType \/ GetCoinsContent \/ GetConfigFile
    \/ \E c \in OtherCommands : DispatchOther(c)
    \/ \E p \in PoolsPayloads : GetPoolsList(p)
    \/ GetPoolsListReturn
    \/ StartMiner \/ StartMinerReturn \/ StopMiner \/ StopMinerReturn

\* the whole coordinator
Next == RunNext \/ PollersNext \/ ConfigureNext(ConfigPayloads) \/ CommandsNext
Spec == Init /\ [][Next]_vars

\* The contexts meet only in config, gui.miner, lastHashrate and the
\* tickers.  The dispatcher reads none of what the polling loops write
\* (lastHashrate and their own locals), so what a command does is the same
\* with and without the loops: SpecDispatch is Run composed with the
\* dispatcher, every command and every payload.
NextDispatch == RunNext \/ ConfigureNext(ConfigPayloads) \/ CommandsNext
SpecDispatch == Init /\ [][NextDispatch]_vars

\* SpecPollers is Run composed with the clock, the two loops and the
\* commands of ConfigureNext
NextPollers == RunNext \/ PollersNext \/ ConfigureNext(ConfigPayloadsShort)
SpecPollers == Init /\ [][NextPollers]_vars

\* SpecSession is Run composed with the two loops and the two commands that
\* write the session configuration.  The clock stands still: it is read by
\* the update-graph hint alone, which no writer of the configuration reads.
NextSession ==
    \/ RunNext
    \/ MiningTickerFires \/ NetworkTickerFires
    \/ NetworkTick \/ NetworkStatsReturn
    \/ LocalLoopStarts \/ LocalTick \/ LocalGetStatsReturn \/ LocalNetStatsReturn
    \/ \E p \in ConfigPayloadsShort : SaveConfiguration(p)
    \/ ConfigureMiner \/ ConfigureGetPoolReturn \/ ConfigureWriteReturn \/ FatalExit
    \/ \E p \in PoolsPayloadsShort : GetPoolsList(p)
    \/ GetPoolsListReturn
SpecSession == Init /\ [][NextSession]_vars

\* ------------------------------------------------------------ claims
\* a dispatch of cmd completed in the step just taken
Dispatched(cmd) == out.ctx = "dispatch" /\ out.cmd = cmd

C2_UnknownIffUnrecognized ==
    (out.ctx = "dispatch" /\ out.reply.sent) =>
        (out.reply.err = UnknownCommand <=> out.cmd \notin Commands)

\* C3: stopMiner without a backend instance, called by the dispatcher or by
\* Run, returns nil, sends no event, calls no backend operation and leaves
\* gui.miner and the process as they are.
C3_StopWithoutBackend ==
    [][/\ (dpc = "idle" /\ ~miner.present /\ out'.ctx = "dispatch"
           /\ out'.cmd = "stop-miner") =>
            /\ out'.log = <<Call("stopMiner")>>
            /\ out'.err = NoErr
            /\ miner' = miner /\ exit' = exit /\ dpc' = "idle"
       /\ (dpc = "idle" /\ ~miner.present) => dpc' # "stop_call"
       /\ (runPc = "stop" /\ runPc' # "stop" /\ ~miner.present) =>
            /\ rlog' = Append(rlog, Call("stopMiner"))
            /\ runErr' = NoErr /\ runPc' = "tickers"
            /\ miner' = miner /\ exit' = exit]_vars

\* C3, witness: a stop was dispatched while there is no backend instance
C3_Witness == Dispatched("stop-miner") /\ ~miner.present /\ Alive

\* C4: a ticker is cancelled only after Run called stopMiner and, where
\* there was a backend, after its Stop returned without error.
C4_StopBeforeTickers ==
    (miningTicker = "stopped" \/ networkTicker = "stopped") =>
        /\ Has(rlog, "stopMiner")
        /\ ~Has(rlog, "fatal_error")
        /\ runPc \in {"tickers2", "returned"}

\* C4, witness: the mining ticker is cancelled after a backend was stopped
C4_Witness == miningTicker = "stopped" /\ Has(rlog, "miner.Stop")

\* C5 as stated: whenever Run has returned after the window was up,
\* stopMiner was called, both tickers are cancelled and no backend is left
\* running.
C5_TeardownComplete ==
    (runPc = "returned" /\ miningTicker # "nil") =>
        /\ Has(rlog, "stopMiner")
        /\ miningTicker = "stopped" /\ networkTicker = "stopped"
        /\ ~miner.running

\* C6 as stated: in one session the out-of-cycle network fetch is
\* triggered at most once.
C6_OneImmediateFetch == immediateFetches <= 1

\* C7: a miner_stats event carries the update-graph hint only if at least
\* GraphUpdateInterval seconds passed since the hint was last sent (or since
\* the loop started).
C7_HintThrottled ==
    [][(/\ out'.ctx = "local" /\ out'.log # <<>>
        /\ Last(out'.log).name = "miner_stats" /\ Last(out'.log).flag)
       => sinceHint >= GraphUpdateInterval]_vars

\* C7, witness: a miner_stats event with the hint was sent
C7_Witness ==
    /\ out.ctx = "local" /\ out.log # <<>>
    /\ Last(out.log).name = "miner_stats" /\ Last(out.log).flag

\* C8: the endpoint WriteConfig is called with is decided by the hardware
\* profile of the payload alone: the CPU endpoint for 1, the GPU endpoint
\* for 2, the generic endpoint for every other value.
C8_EndpointByProfile ==
    \A i \in 1..Len(dlog) :
        dlog[i].name = "miner.WriteConfig" =>
            dlog[i].data = CASE dpayload.HardwareType = 1 -> PoolInfo.Cpu
                             [] dpayload.HardwareType = 2 -> PoolInfo.Gpu
                             [] OTHER -> PoolInfo.Config

\* C8, witness: WriteConfig was called for a payload with an unset profile
C8_Witness ==
    /\ dpc = "cfg_write" /\ dpayload.HardwareType = 0
    /\ Last(dlog) = Entry("miner.WriteConfig", PoolInfo.Config, 0, FALSE)

\* C9 as stated: the process is never terminated by the coordinator
\* without a fatal_error event sent before, in the same handler.
C9_FatalEventBeforeExit == exit = "fatal" => Has(dlog, "fatal_error")

\* C10 (amended): a call that does not return stalls the context that made
\* it and no other: whatever the other contexts wait for, a loop with a
\* tick in its channel processes it, the idle dispatcher takes a command,
\* and a context whose own call is answered goes on.
C10_StallsOnlyCaller ==
    Running =>
        /\ (localPc = "wait" /\ miningTick) => ENABLED LocalTick
        /\ (netPc = "wait" /\ networkTick) => ENABLED NetworkTick
        /\ (dpc = "idle" /\ runPc \in {"onwait_netstats", "ui"}) =>
              ENABLED GetProcessingConfig
        /\ localPc = "getstats" => ENABLED LocalGetStatsReturn
        /\ localPc = "netstats" => ENABLED LocalNetStatsReturn
        /\ netPc = "netstats" => ENABLED NetworkStatsReturn

\* C10, witness: the local-stats loop sent miner_stats while the
\* network-stats loop waits for the pool API
C10_Witness ==
    netPc = "netstats" /\ out.ctx = "local" /\ Has(out.log, "miner_stats")

\* C10 as stated: of the two loops only the network-stats loop ever waits
\* for the network-stats call of the pool API, so that a call that does not
\* return leaves the local-stats loop processing its ticks.
C10_Original == localPc # "netstats"

\* a session that started without a persisted configuration
Fresh == config.Mid = DefaultConfig.Mid

\* the coin types a get-pools-list dispatch can have stored
PoolsCoinTypes == {p.CoinType : p \in {q \in PoolsPayloads : q.ok}}

\* a fresh session no save-configuration was dispatched in: every failure of
\* configureMiner ends the process, so once the dispatcher is free again a
\* dispatched save-configuration has left a backend instance behind
Unconfigured == Fresh /\ ~miner.present /\ dcmd # "save-configuration"

C12_PoolsListIdempotent ==
    [][(/\ lastPools.seen /\ lastPools'.seen
        /\ out'.ctx = "dispatch" /\ out'.cmd = "get-pools-list" /\ out'.reply.sent
        /\ lastPools'.coin = lastPools.coin /\ lastPools'.pools = lastPools.pools)
       => /\ out'.reply.val = lastPools.val
          /\ out'.reply.err = NoErr
          /\ config' = lastPools.cfg]_vars

\* C12, witness: a second get-pools-list returned, for the coin type and the
\* pool list of the first
C12_Witness ==
    /\ Dispatched("get-pools-list") /\ out.reply.sent
    /\ lastPools.repeat /\ Len(lastPools.pools) = 2

\* C13 as stated: configureMiner puts a new backend instance in gui.miner
\* only when the instance it replaces is absent or not running.
C13_NoReplaceWhileRunning ==
    [][(dcmd' = "save-configuration" /\ Has(dlog', "miner.CreateMiner")
        /\ ~Has(dlog, "miner.CreateMiner"))
       => ~miner.running]_vars

\* C14 as stated: in a fresh session gui.miner goes from absent to present
\* only in the step in which save-configuration returns "Ok", so that no
\* tick of the polling loops finds an instance while configureMiner is at
\* work or has failed.
C14_AbsentUntilConfigured ==
    [][(Fresh /\ ~miner.present /\ miner'.present)
       => (/\ out'.ctx = "dispatch" /\ out'.cmd = "save-configuration"
           /\ out'.reply = Reply(<<"Ok">>, NoErr))]_vars

C16_ProfileCopied ==
    /\ \A i \in 1..Len(dlog) :
         dlog[i].name = "miner.CreateMiner" =>
             /\ dlog[i].num = config.HardwareType
             /\ dlog[i].num = dpayload.HardwareType
             /\ config.MinerHardwareType = config.HardwareType
    /\ (miner.present /\ dcmd # "save-configuration") =>
         /\ miner.hw = config.HardwareType
         /\ config.MinerHardwareType = config.HardwareType

\* C16, witness: configureMiner created an instance for the GPU profile in a
\* session that had the CPU profile
C16_Witness ==
    /\ dcmd = "save-configuration" /\ dpc = "cfg_getpool"
    /\ Has(dlog, "miner.CreateMiner")
    /\ dpayload.HardwareType = GpuHardwareType /\ miner.hw = GpuHardwareType
    /\ Fresh

\* the names of the entries of a trace
Names(log) == [i \in 1..Len(log) |-> log[i].name]

\* s is an initial part of t
IsPrefix(s, t) == Len(s) <= Len(t) /\ \A i \in 1..Len(s) : s[i] = t[i]

\* the external calls of configureMiner, in the order of the source
ApplySteps ==
    <<"DetermineMinerType", "miner.CreateMiner", "api.GetPool", "miner.WriteConfig",
      "SaveConfig">>

\* C17: configureMiner makes its calls in the order of ApplySteps; a step
\* that fails sends one fatal_error, which is the last thing the handler
\* does before the grace period and Fatalf; SaveConfig is called only after
\* WriteConfig returned without error, and save-configuration returns "Ok"
\* only after all the steps.
C17_StepsInOrder ==
    /\ dcmd = "save-configuration" =>
         /\ IsPrefix(Names(Calls(dlog)), ApplySteps)
         /\ Count(dlog, "fatal_error") <= 1
         /\ Has(dlog, "fatal_error") <=> dpc \in {"fatal_sleep", "exited"}
         /\ Has(dlog, "fatal_error") => Last(dlog) = FatalError(ErrE)
         /\ dpc = "exited" <=> exit = "fatal"
         /\ (~dpayload.ok /\ dpc # "cfg_delay") => Calls(dlog) = <<>>
    /\ (Dispatched("save-configuration") /\ out.reply.sent) =>
         /\ out.reply = Reply(<<"Ok">>, NoErr)
         /\ Names(out.log) = ApplySteps
         /\ Alive

\* C17, witness: WriteConfig failed; the process was terminated and
\* SaveConfig never called
C17_Witness ==
    /\ dcmd = "save-configuration" /\ exit = "fatal"
    /\ Names(dlog) = <<"DetermineMinerType", "miner.CreateMiner", "api.GetPool",
                       "miner.WriteConfig", "fatal_error">>

\* C18 (amended): get-processing-config without a backend instance sends one
\* fatal_error, returns "" and no error, calls nothing on a backend and
\* leaves the process running; with an instance it calls GetStats, then
\* GetProcessingConfig, and returns no error; it sends a fatal_error (and
\* returns "") only when the processing configuration cannot be serialized.
C18_ProcessingConfig ==
    /\ dcmd = "get-processing-config" =>
         /\ miner.present /\ dpc = "gpc_stats" /\ Alive
         /\ dlog = <<Call("miner.GetStats")>>
    /\ Dispatched("get-processing-config") =>
         /\ Alive /\ dpc = "idle"
         /\ out.reply.sent /\ out.reply.err = NoErr
         /\ IF ~miner.present
            THEN /\ Calls(out.log) = <<>>
                 /\ Names(out.log) = <<"fatal_error">>
                 /\ out.reply.val = <<"">>
            ELSE /\ Names(Calls(out.log)) = <<"miner.GetStats", "miner.GetProcessingConfig">>
                 /\ Count(out.log, "fatal_error") = IF out.err = NoErr THEN 0 ELSE 1
                 /\ out.err # NoErr => out.reply.val = <<"">>
                 /\ out.err # NoErr => Last(out.log) = FatalError(out.err)

\* C18, witness: get-processing-config returned in a session without a
\* backend instance
C18_Witness == Dispatched("get-processing-config") /\ ~miner.present /\ out.reply.sent

\* C18 as stated: with a backend instance get-processing-config sends no
\* fatal_error.
C18_Original ==
    (Dispatched("get-processing-config") /\ miner.present) => ~Has(out.log, "fatal_error")

\* C19: a tick of the local-stats loop sends miner_stats exactly when there
\* was a backend instance and its GetStats returned without error; a tick
\* without an instance or with a failed GetStats sends nothing, keeps
\* lastHashrate, leaves the process running and the loop waiting for the next
\* tick.
C19_LocalTickEmission ==
    [][/\ (localPc = "wait" /\ miningTick /\ ~miningTick') =>
            IF miner.present
            THEN /\ localPc' = "getstats" /\ llog' = <<Call("miner.GetStats")>>
                 /\ out'.ctx = "none"
            ELSE /\ out' = Out("local", "", <<>>, NoReply)
       /\ out'.ctx = "local" =>
            /\ Has(out'.log, "miner_stats") <=>
                 (Has(out'.log, "miner.GetStats") /\ out'.err = NoErr)
            /\ Count(out'.log, "miner_stats") <= 1
            /\ ~Has(out'.log, "fatal_error")
            /\ ~Has(out'.log, "miner_stats") =>
                 /\ Events(out'.log) = <<>>
                 /\ lastHashrate' = lastHashrate
            /\ exit' = "none" /\ localPc' = "wait"]_vars

\* C19, witness: a tick whose GetStats failed went by after a hashrate had
\* been observed
C19_Witness ==
    /\ out.ctx = "local" /\ out.err = ErrE /\ Has(out.log, "miner.GetStats")
    /\ lastHashrate > 0

\* C20: an updateNetworkStats of the network-stats loop or of OnWait sends
\* network_stats exactly when the query of the pool API returned without
\* error; after a failed query it sends nothing, the process runs on and the
\* caller goes on (the loop to its next tick, OnWait to its return).
C20_NetworkTickEmission ==
    [][out'.ctx \in {"network", "onwait"} =>
         /\ Names(Calls(out'.log)) = <<"api.GetStats">>
         /\ Names(Events(out'.log)) =
              IF out'.err = NoErr THEN <<"network_stats">> ELSE <<>>
         /\ exit' = "none"
         /\ out'.ctx = "network" => (netPc = "netstats" /\ netPc' = "wait")
         /\ out'.ctx = "onwait" => (runPc = "onwait_netstats" /\ runPc' = "ui")]_vars

\* C20, witness: a query of the network-stats loop failed
C20_Witness ==
    out.ctx = "network" /\ out.err = ErrE /\ netPc = "wait" /\ Alive

\* C21 as stated: no start-miner dispatch calls Start on an absent backend
\* instance, so that none ends in a crash.
C21_StartNeedsBackend == ~(Dispatched("start-miner") /\ exit = "panic")

\* C22: when the loop goes into the out-of-cycle fetch, lastHashrate was zero
\* and holds the hashrate just observed, which is nonzero and is the one the
\* GetStats call of the pool API is made with; it stays so while the call is
\* out.
C22_FetchKeyedByNewHashrate ==
    [][/\ (localPc = "getstats" /\ localPc' = "netstats") =>
            /\ lastHashrate = 0 /\ lastHashrate' > 0
            /\ Last(llog') = Entry("api.GetStats", config.PoolID, lastHashrate', FALSE)
       /\ localPc' = "netstats" =>
            /\ Last(llog').name = "api.GetStats"
            /\ Last(llog').num = lastHashrate' /\ Last(llog').num > 0]_vars

\* C22, witness: the out-of-cycle fetch is out, keyed by the hashrate observed
C22_Witness ==
    /\ localPc = "netstats" /\ lastHashrate > 0
    /\ Last(llog) = Entry("api.GetStats", config.PoolID, lastHashrate, FALSE)

====
